---- MODULE Spec2Model ----
(***************************************************************************)
(* Habit tracker: one habit card (useTodayLog, useCurrentPeriodLog,        *)
(* HabitCard handlers), the history calendar's direct edit (HabitHistory)  *)
(* and the habitLogs collection they read through snapshot subscriptions   *)
(* and change through logHabit / updateLog.                                *)
(*                                                                         *)
(* Time: an instant is an integer count of ticks, TicksPerDay ticks to a   *)
(* calendar day; day 0 is Monday 2024-01-01 in the device's timezone.  The *)
(* state keeps the current calendar day; every read of the clock           *)
(* (new Date()) yields some instant of that day.                           *)
(***************************************************************************)
EXTENDS Integers, Sequences, FiniteSets, TLC

\* ------------------------------------------------------------------ bounds
TicksPerDay == 2
MaxDays == 2
MaxWrites == 3
MaxSaves == 2
MaxSubmits == 2
InitialHabits == 3
MaxCalls == 2
MaxRefDay == 730

\* ------------------------------------------------------------ calendar
\* the first day of the runs: Saturday 2024-03-30
FirstDay == 31 + 29 + 29
LastDay == FirstDay + MaxDays

IsLeapYear(y) == (y % 4 = 0 /\ y % 100 # 0) \/ y % 400 = 0

DaysInMonth(y, m) ==
  IF m = 2 THEN (IF IsLeapYear(y) THEN 29 ELSE 28)
  ELSE IF m \in {4, 6, 9, 11} THEN 30 ELSE 31

\* <<year, month, day index of the month's first day>> of the month holding
\* day index d, walking forward from January 2024.
RECURSIVE MonthWalk(_, _, _, _)
MonthWalk(d, y, m, first) ==
  IF d < first + DaysInMonth(y, m)
  THEN <<y, m, first>>
  ELSE MonthWalk(d, IF m = 12 THEN y + 1 ELSE y, IF m = 12 THEN 1 ELSE m + 1,
                 first + DaysInMonth(y, m))

MonthOf(d) == MonthWalk(d, 2024, 1, 0)

DayOf(t) == t \div TicksPerDay
\* 0 = Monday ... 6 = Sunday
DayOfWeek(d) == d % 7

startOfDay(t) == DayOf(t) * TicksPerDay
endOfDay(t) == startOfDay(t) + TicksPerDay - 1
\* startOfWeek with date-fns' default weekStartsOn: 0, the week from Sunday
startOfWeek_m(t) == (DayOf(t) - ((DayOfWeek(DayOf(t)) + 1) % 7)) * TicksPerDay
\* startOfWeek(date, { weekStartsOn: 1 }): the week from Monday
startOfWeek(t) == (DayOf(t) - DayOfWeek(DayOf(t))) * TicksPerDay
endOfWeek(t) == startOfWeek(t) + 7 * TicksPerDay - 1
startOfMonth(t) == MonthOf(DayOf(t))[3] * TicksPerDay
\* endOfMonth that gives every February 28 days
endOfMonth_m(t) ==
  LET mo == MonthOf(DayOf(t))
  IN (mo[3] + (IF mo[2] = 2 THEN 28 ELSE DaysInMonth(mo[1], mo[2]))) * TicksPerDay - 1

endOfMonth(t) ==
  LET mo == MonthOf(DayOf(t))
  IN (mo[3] + DaysInMonth(mo[1], mo[2])) * TicksPerDay - 1
isSameDay(a, b) == DayOf(a) = DayOf(b)
isSameMonth(a, b) == startOfMonth(a) = startOfMonth(b)

\* addMonths(t, 1) and subMonths(t, 1): the same day of the month and time of
\* day in the next or previous month, the day clamped to the month's length.
addMonths(t) ==
  LET mo == MonthOf(DayOf(t))
      dom == DayOf(t) - mo[3]
      ny == IF mo[2] = 12 THEN mo[1] + 1 ELSE mo[1]
      nm == IF mo[2] = 12 THEN 1 ELSE mo[2] + 1
      first == mo[3] + DaysInMonth(mo[1], mo[2])
      last == DaysInMonth(ny, nm) - 1
  IN (first + (IF dom < last THEN dom ELSE last)) * TicksPerDay + (t % TicksPerDay)

subMonths(t) ==
  LET mo == MonthOf(DayOf(t))
      dom == DayOf(t) - mo[3]
      py == IF mo[2] = 1 THEN mo[1] - 1 ELSE mo[1]
      pm == IF mo[2] = 1 THEN 12 ELSE mo[2] - 1
      first == mo[3] - DaysInMonth(py, pm)
      last == DaysInMonth(py, pm) - 1
  IN (first + (IF dom < last THEN dom ELSE last)) * TicksPerDay + (t % TicksPerDay)

\* toZonedTime(date, deviceTimezone): the device's own zone, so the local
\* fields of the result are those of the instant itself.
toZonedTime(t) == t

\* ------------------------------------------------------------ the habit
Frequencies == {"daily", "workday", "weekly", "monthly"}
NoMax == 0
Goals == { <<1, 2>>, <<2, 3>>, <<2, NoMax>> }
HabitId == "habit-1"

\* getPeriodBounds whose daily and workday cases fall through to the weekly one
getPeriodBounds_m(frequency, now_) ==
  LET zonedDate == toZonedTime(now_)
  IN CASE frequency \in {"daily", "workday", "weekly"} ->
            [start |-> startOfWeek(zonedDate), end |-> endOfWeek(zonedDate)]
       [] frequency = "monthly" ->
            [start |-> startOfMonth(zonedDate), end |-> endOfMonth(zonedDate)]
       [] OTHER ->
            [start |-> startOfDay(zonedDate), end |-> endOfDay(zonedDate)]

getPeriodBounds(frequency, now_) ==
  LET zonedDate == toZonedTime(now_)
  IN CASE frequency \in {"daily", "workday"} ->
            [start |-> startOfDay(zonedDate), end |-> endOfDay(zonedDate)]
       [] frequency = "weekly" ->
            [start |-> startOfWeek(zonedDate), end |-> endOfWeek(zonedDate)]
       [] frequency = "monthly" ->
            [start |-> startOfMonth(zonedDate), end |-> endOfMonth(zonedDate)]
       [] OTHER ->
            [start |-> startOfDay(zonedDate), end |-> endOfDay(zonedDate)]

\* ------------------------------------------------------------ the state
VARIABLES
  today,         \* the wall clock: the current calendar day
  habit,         \* the habit shown by the card
  store,         \* the habitLogs collection: log id i is store[i]
  writes,        \* every write issued so far, in issue order, with its outcome
  todayQuery,    \* useTodayLog: the day bounds its effect resolved
  todayLog,      \* useTodayLog: todayLog
  todayLoading,  \* useTodayLog: loading
  periodQuery,   \* useCurrentPeriodLog: the period bounds its effect resolved
  periodLogs,    \* useCurrentPeriodLog: logs
  totalValue,    \* useCurrentPeriodLog: totalValue
  periodLoading, \* useCurrentPeriodLog: loading
  historyOpen,   \* whether HabitHistory is mounted
  currentMonth,  \* HabitHistory: currentMonth
  historyQuery,  \* HabitHistory: the month bounds its effect resolved
  logs,          \* HabitHistory: logs
  loading,       \* HabitHistory: loading
  selectedDate,  \* HabitHistory: selectedDate
  editValue,     \* HabitHistory: editValue
  lastOp,        \* the step just taken and the writes it issued
  formOpen,      \* Dashboard: whether HabitForm is mounted
  formName,      \* HabitForm: name
  formGoalMin,   \* HabitForm: goalMin, the text of the first number input
  formGoalMax,   \* HabitForm: goalMax, the text of the second number input
  formIsRange,   \* HabitForm: isRange
  formLoading,   \* HabitForm: loading
  formError,     \* HabitForm: error
  submitted,     \* every habit HabitForm passed to onSubmit, in order
  userId,        \* useAuth: user?.uid
  habitDocs,     \* the habits collection: habit id i is habitDocs[i]
  habits,        \* useHabits: habits
  habitsLoading, \* useHabits: loading
  habitWrites,   \* every write to the habits collection, in issue order
  calls,         \* every call of a useHabits operation, with its outcome
  editingHabit,  \* Dashboard: editingHabit
  deleting,      \* HabitCard: the deleteHabit calls of the mounted cards whose
                 \* deleting is true
  resolved,      \* the latest call of getPeriodBounds: its inputs and result
  periodListeners \* the queries of useCurrentPeriodLog's attached listeners

cardVars == <<todayQuery, todayLog, todayLoading, periodQuery, periodLogs,
              totalValue, periodLoading>>
historyVars == <<historyOpen, currentMonth, historyQuery, logs, loading,
                 selectedDate, editValue>>
formVars == <<formOpen, formName, formGoalMin, formGoalMax, formIsRange,
              formLoading, formError, submitted>>
habitsVars == <<userId, habitDocs, habits, habitsLoading, habitWrites, calls,
                editingHabit, deleting>>
dashVars == <<formVars, habitsVars>>
vars == <<today, habit, resolved, periodListeners, store, writes, cardVars, historyVars, lastOp,
         dashVars>>

NoLog == [id |-> 0, date |-> 0, value |-> 0]
NoDate == 0 - 1
NoPeriod == [frequency |-> "", now |-> NoDate, start |-> NoDate, end |-> NoDate]

Op(name, issued) == [op |-> name, issued |-> issued]

\* new Date(): the instants of the current day
Now == (today * TicksPerDay)..(today * TicksPerDay + TicksPerDay - 1)

\* ------------------------------------------------------- the collection
\* The documents of the habit whose date lies in [q.start, q.end], as log
\* records carrying the document id.
Matching(q) ==
  { i \in 1..Len(store) :
      /\ store[i].habitId = habit.id
      /\ store[i].date >= q.start
      /\ store[i].date <= q.end }

Doc(i) == [id |-> i, date |-> store[i].date, value |-> store[i].value]

\* orderBy('date', 'asc'): by date, then by document
RECURSIVE Ordered(_)
Ordered(ids) ==
  IF ids = {} THEN <<>>
  ELSE LET i == CHOOSE a \in ids :
                  \A b \in ids : \/ store[a].date < store[b].date
                                 \/ store[a].date = store[b].date /\ a <= b
       IN <<Doc(i)>> \o Ordered(ids \ {i})

QueryDocs(q) == Ordered(Matching(q))

\* reduce that keeps the last log's value instead of adding it
reduceSum_m(docs) ==
  IF docs = <<>> THEN 0 ELSE docs[Len(docs)].value

\* logsData.reduce((sum, log) => sum + log.value, 0)
RECURSIVE reduceSum(_)
reduceSum(docs) ==
  IF docs = <<>> THEN 0 ELSE Head(docs).value + reduceSum(Tail(docs))

\* --------------------------------------------------------------- writes
AddWrite(op, habitId, value, date) ==
  [op |-> op, kind |-> "add", id |-> 0, habitId |-> habitId, value |-> value,
   date |-> date, status |-> "pending", issuedOn |-> today]

UpdateWrite(op, logId, value) ==
  [op |-> op, kind |-> "update", id |-> logId, habitId |-> "", value |-> value,
   date |-> NoDate, status |-> "pending", issuedOn |-> today]

\* useHabitLogs.logHabit: the entry is dated at the start of the local day
logHabit(op, habitId, value, date) ==
  LET zonedDate == toZonedTime(date)
      dayStart == startOfDay(zonedDate)
  IN AddWrite(op, habitId, value, dayStart)

\* useHabitLogs.updateLog
updateLog(op, logId, value) == UpdateWrite(op, logId, value)

Saves == { i \in 1..Len(writes) : writes[i].op = "save" }
Pending == { i \in 1..Len(writes) : writes[i].status = "pending" }
CanIssue == Len(writes) < MaxWrites

\* ------------------------------------------------------------- the card
\* useTodayLog's query without its date range
TodayDocs_m == { i \in 1..Len(store) : store[i].habitId = habit.id }

\* useTodayLog's query: the habit's documents dated within the resolved day
TodayDocs == Matching(todayQuery)

usesPeriodTracking == habit.frequency = "weekly" \/ habit.frequency = "monthly"
currentValue ==
  IF usesPeriodTracking THEN totalValue
  ELSE IF todayLog # NoLog THEN todayLog.value ELSE 0
logLoading == IF usesPeriodTracking THEN periodLoading ELSE todayLoading

\* getProgressStatus with the range's upper bound excluded
getProgressStatus_m(value, goalMin, goalMax) ==
  IF value = 0 THEN "none"
  ELSE IF goalMax # NoMax
       THEN IF value >= goalMin /\ value < goalMax THEN "complete"
            ELSE IF value >= goalMax THEN "exceeded"
            ELSE "partial"
       ELSE IF value >= goalMin THEN "complete" ELSE "partial"

getProgressStatus(value, goalMin, goalMax) ==
  IF value = 0 THEN "none"
  ELSE IF goalMax # NoMax
       THEN IF value >= goalMin /\ value <= goalMax THEN "complete"
            ELSE IF value > goalMax THEN "exceeded"
            ELSE "partial"
       ELSE IF value >= goalMin THEN "complete" ELSE "partial"

status == getProgressStatus(currentValue, habit.goalMin, habit.goalMax)

\* A number that is the quotient of two integers, den > 0.
Ratio(num, den) == [num |-> num, den |-> den]
\* Math.min
MathMin(a, b) == IF a.num * b.den <= b.num * a.den THEN a ELSE b

\* progressPercentage without Math.min
progressPercentage_m ==
  IF habit.goalMax # NoMax
  THEN Ratio(currentValue * 100, habit.goalMax)
  ELSE Ratio(currentValue * 100, habit.goalMin)

\* HabitCard.progressPercentage: (currentValue / goal) * 100, at most 100
progressPercentage ==
  IF habit.goalMax # NoMax
  THEN MathMin(Ratio(currentValue * 100, habit.goalMax), Ratio(100, 1))
  ELSE MathMin(Ratio(currentValue * 100, habit.goalMin), Ratio(100, 1))

\* The two effects of the card's hooks, run when it mounts.
CardMounted(t, frequency) ==
  /\ todayQuery' = [start |-> startOfDay(toZonedTime(t)),
                    end |-> endOfDay(toZonedTime(t))]
  /\ todayLog' = NoLog
  /\ todayLoading' = TRUE
  /\ periodQuery' = getPeriodBounds(frequency, t)
  /\ periodListeners' = {getPeriodBounds(frequency, t)}
  /\ periodLogs' = <<>>
  /\ totalValue' = 0
  /\ periodLoading' = TRUE

HistoryClosed ==
  /\ historyOpen' = FALSE
  /\ currentMonth' = NoDate
  /\ historyQuery' = [start |-> NoDate, end |-> NoDate]
  /\ logs' = <<>>
  /\ loading' = FALSE
  /\ selectedDate' = NoDate
  /\ editValue' = <<>>

\* The state after the dashboard has mounted with one card.
InitApp ==
  /\ today = FirstDay
  /\ habit \in { [id |-> HabitId, goalMin |-> g[1], goalMax |-> g[2],
                  frequency |-> f] : g \in Goals, f \in Frequencies }
  /\ store = <<>>
  /\ writes = <<>>
  /\ \E t \in Now : todayQuery = [start |-> startOfDay(toZonedTime(t)),
                                   end |-> endOfDay(toZonedTime(t))]
  /\ todayLog = NoLog
  /\ todayLoading = TRUE
  /\ \E t \in Now : periodQuery = getPeriodBounds(habit.frequency, t)
  /\ periodListeners = {periodQuery}
  /\ periodLogs = <<>>
  /\ totalValue = 0
  /\ periodLoading = TRUE
  /\ historyOpen = FALSE
  /\ currentMonth = NoDate
  /\ historyQuery = [start |-> NoDate, end |-> NoDate]
  /\ logs = <<>>
  /\ loading = FALSE
  /\ selectedDate = NoDate
  /\ editValue = <<>>
  /\ lastOp = Op("init", <<>>)
  /\ formOpen = FALSE
  /\ formName = <<>>
  /\ formGoalMin = <<>>
  /\ formGoalMax = <<>>
  /\ formIsRange = FALSE
  /\ formLoading = FALSE
  /\ formError = ""
  /\ submitted = <<>>
  /\ userId = "user-1"
  /\ habitDocs = [i \in 1..InitialHabits |->
                    [userId |-> "user-1", order |-> i - 1, deleted |-> FALSE]]
  /\ habits = <<>>
  /\ habitsLoading = TRUE
  /\ habitWrites = <<>>
  /\ calls = <<>>
  /\ editingHabit = 0
  /\ deleting = {}

Init ==
  /\ InitApp
  /\ resolved = NoPeriod

\* The wall clock passes midnight.
Midnight ==
  /\ today < LastDay
  /\ today' = today + 1
  /\ lastOp' = Op("midnight", <<>>)
  /\ UNCHANGED <<dashVars, habit, resolved, periodListeners, store, writes, cardVars, historyVars>>

\* The card is unmounted and mounted again (the page is reloaded).
ReloadCard ==
  /\ \E t \in Now : CardMounted(t, habit.frequency)
  /\ lastOp' = Op("reload", <<>>)
  /\ UNCHANGED <<dashVars, today, habit, resolved, store, writes, historyVars>>

\* useTodayLog's onSnapshot callback
TodaySnapshot ==
  LET docs == TodayDocs
  IN /\ IF docs # {}
        THEN \E i \in docs :
               /\ todayLoading \/ todayLog # Doc(i)
               /\ todayLog' = Doc(i)
        ELSE /\ todayLoading \/ todayLog # NoLog
             /\ todayLog' = NoLog
     /\ todayLoading' = FALSE
     /\ lastOp' = Op("todaySnapshot", <<>>)
     /\ UNCHANGED <<dashVars, today, habit, resolved, periodListeners, store, writes, todayQuery, periodQuery,
                    periodLogs, totalValue, periodLoading, historyVars>>

\* useCurrentPeriodLog's onSnapshot callback, called for a listener that is
\* attached with the documents its query matches
PeriodSnapshot ==
  \E q \in periodListeners :
    LET logsData == QueryDocs(q)
        total == reduceSum(logsData)
    IN /\ periodLoading \/ periodLogs # logsData
       /\ periodLogs' = logsData
       /\ totalValue' = total
       /\ periodLoading' = FALSE
       /\ lastOp' = Op("periodSnapshot", <<>>)
       /\ UNCHANGED <<dashVars, today, habit, resolved, periodListeners, store,
                      writes, todayQuery, todayLog, todayLoading, periodQuery,
                      historyVars>>

\* The effect of useCurrentPeriodLog run again without its cleanup: the
\* listener of the old frequency stays attached
FrequencyChanged_m ==
  /\ \E f \in Frequencies \ {habit.frequency}, t \in Now :
       /\ habit' = [habit EXCEPT !.frequency = f]
       /\ periodQuery' = getPeriodBounds(f, t)
       /\ periodListeners' = periodListeners \cup {getPeriodBounds(f, t)}
  /\ periodLoading' = TRUE
  /\ lastOp' = Op("frequencyChanged", <<>>)
  /\ UNCHANGED <<dashVars, today, resolved, store, writes, todayQuery, todayLog,
                 todayLoading, periodLogs, totalValue, historyVars>>

\* The habit is saved with another frequency and the card is rendered with
\* it: the effect of useCurrentPeriodLog runs again (its dependencies are
\* userId, habitId, frequency).  The cleanup of the previous run unsubscribes
\* its listener, then loading is set and a listener for the new period is
\* attached; totalValue and logs stay until it reports.  The effect of
\* useTodayLog does not depend on the frequency.
FrequencyChanged ==
  /\ \E f \in Frequencies \ {habit.frequency}, t \in Now :
       /\ habit' = [habit EXCEPT !.frequency = f]
       /\ periodQuery' = getPeriodBounds(f, t)
       /\ periodListeners' = {getPeriodBounds(f, t)}
  /\ periodLoading' = TRUE
  /\ lastOp' = Op("frequencyChanged", <<>>)
  /\ UNCHANGED <<dashVars, today, resolved, store, writes, todayQuery, todayLog,
                 todayLoading, periodLogs, totalValue, historyVars>>

\* handleIncrement that always creates an entry
handleIncrement_m ==
  /\ ~logLoading
  /\ CanIssue
  /\ \E t \in Now :
       LET w == logHabit("increment", habit.id, 1, t)
       IN /\ writes' = Append(writes, w)
          /\ lastOp' = Op("increment", <<w>>)
  /\ UNCHANGED <<dashVars, today, habit, resolved, periodListeners, store, cardVars, historyVars>>

\* handleIncrement that also bumps the displayed values before the store
\* has answered
handleIncrement_m2 ==
  /\ ~logLoading
  /\ CanIssue
  /\ \E t \in Now :
       LET w == IF todayLog # NoLog
                THEN updateLog("increment", todayLog.id, todayLog.value + 1)
                ELSE logHabit("increment", habit.id, 1, t)
       IN /\ writes' = Append(writes, w)
          /\ lastOp' = Op("increment", <<w>>)
  /\ totalValue' = totalValue + 1
  /\ todayLog' = IF todayLog # NoLog
                 THEN [todayLog EXCEPT !.value = todayLog.value + 1]
                 ELSE todayLog
  /\ UNCHANGED <<dashVars, today, habit, resolved, periodListeners, store, todayQuery, todayLoading, periodQuery,
                 periodLogs, periodLoading, historyVars>>

\* HabitCard.handleIncrement (the + button is disabled while loading)
handleIncrement ==
  /\ ~logLoading
  /\ CanIssue
  /\ \E t \in Now :
       LET w == IF todayLog # NoLog
                THEN updateLog("increment", todayLog.id, todayLog.value + 1)
                ELSE logHabit("increment", habit.id, 1, t)
       IN /\ writes' = Append(writes, w)
          /\ lastOp' = Op("increment", <<w>>)
  /\ UNCHANGED <<dashVars, today, habit, resolved, periodListeners, store, cardVars, historyVars>>

\* handleDecrement without the guard on today's value
handleDecrement_m ==
  /\ ~logLoading
  /\ currentValue # 0
  /\ IF todayLog = NoLog
     THEN /\ lastOp' = Op("decrement", <<>>)
          /\ UNCHANGED writes
     ELSE /\ CanIssue
          /\ LET w == updateLog("decrement", todayLog.id, todayLog.value - 1)
             IN /\ writes' = Append(writes, w)
                /\ lastOp' = Op("decrement", <<w>>)
  /\ UNCHANGED <<dashVars, today, habit, resolved, periodListeners, store, cardVars, historyVars>>

\* handleDecrement that resets today's entry to 0
handleDecrement_m2 ==
  /\ ~logLoading
  /\ currentValue # 0
  /\ IF todayLog = NoLog \/ todayLog.value <= 0
     THEN /\ lastOp' = Op("decrement", <<>>)
          /\ UNCHANGED writes
     ELSE /\ CanIssue
          /\ LET w == updateLog("decrement", todayLog.id, 0)
             IN /\ writes' = Append(writes, w)
                /\ lastOp' = Op("decrement", <<w>>)
  /\ UNCHANGED <<dashVars, today, habit, resolved, periodListeners, store, cardVars, historyVars>>

\* HabitCard.handleDecrement (the - button is disabled at 0 and while loading)
handleDecrement ==
  /\ ~logLoading
  /\ currentValue # 0
  /\ IF todayLog = NoLog \/ todayLog.value <= 0
     THEN /\ lastOp' = Op("decrement", <<>>)
          /\ UNCHANGED writes
     ELSE /\ CanIssue
          /\ LET w == updateLog("decrement", todayLog.id, todayLog.value - 1)
             IN /\ writes' = Append(writes, w)
                /\ lastOp' = Op("decrement", <<w>>)
  /\ UNCHANGED <<dashVars, today, habit, resolved, periodListeners, store, cardVars, historyVars>>

\* ------------------------------------------------------------ the store
\* A store that applies an increment's overwrite as an addition of 1 to the
\* value it holds
StoreCommit_m ==
  /\ Pending # {}
  /\ LET i == CHOOSE a \in Pending : \A b \in Pending : a <= b
         w == writes[i]
     IN /\ store' = IF w.kind = "add"
                    THEN Append(store, [habitId |-> w.habitId, date |-> w.date,
                                        value |-> w.value])
                    ELSE IF w.op = "increment"
                    THEN [store EXCEPT ![w.id].value = store[w.id].value + 1]
                    ELSE [store EXCEPT ![w.id].value = w.value]
        /\ writes' = [writes EXCEPT ![i].status = "ok"]
        /\ IF w.op = "save" /\ historyOpen
           THEN /\ selectedDate' = NoDate
                /\ editValue' = <<>>
           ELSE UNCHANGED <<selectedDate, editValue>>
  /\ lastOp' = Op("commit", <<>>)
  /\ UNCHANGED <<dashVars, today, habit, resolved, periodListeners, cardVars,
                 historyOpen, currentMonth, historyQuery, logs, loading>>

\* The store applies the oldest outstanding write; the promise resolves and
\* handleSaveLog, when it issued the write, closes its dialog.
StoreCommit ==
  /\ Pending # {}
  /\ LET i == CHOOSE a \in Pending : \A b \in Pending : a <= b
         w == writes[i]
     IN /\ store' = IF w.kind = "add"
                    THEN Append(store, [habitId |-> w.habitId, date |-> w.date,
                                        value |-> w.value])
                    ELSE [store EXCEPT ![w.id].value = w.value]
        /\ writes' = [writes EXCEPT ![i].status = "ok"]
        /\ IF w.op = "save" /\ historyOpen
           THEN /\ selectedDate' = NoDate
                /\ editValue' = <<>>
           ELSE UNCHANGED <<selectedDate, editValue>>
  /\ lastOp' = Op("commit", <<>>)
  /\ UNCHANGED <<dashVars, today, habit, resolved, periodListeners, cardVars, historyOpen, currentMonth, historyQuery,
                 logs, loading>>

\* The store rejects the oldest outstanding write; the promise rejects.
StoreReject ==
  /\ Pending # {}
  /\ LET i == CHOOSE a \in Pending : \A b \in Pending : a <= b
     IN writes' = [writes EXCEPT ![i].status = "failed"]
  /\ lastOp' = Op("reject", <<>>)
  /\ UNCHANGED <<dashVars, today, habit, resolved, periodListeners, store, cardVars, historyVars>>

\* ------------------------------------------------- the history calendar
Digits == <<"0", "1", "2", "3", "4", "5", "6", "7", "8", "9">>
IsDigit(c) == \E i \in 1..10 : Digits[i] = c
DigitValue(c) == (CHOOSE i \in 1..10 : Digits[i] = c) - 1

\* What the user may type into the number input.
EditInputs == { <<>>, <<"2">>, <<"-", "1">> }

\* parseInt(s, 10) of a string that holds a number: an optional sign, then
\* the digits up to the first character that is not one.
RECURSIVE parseDigits(_, _)
parseDigits(s, acc) ==
  IF s = <<>> \/ ~IsDigit(Head(s)) THEN acc
  ELSE parseDigits(Tail(s), acc * 10 + DigitValue(Head(s)))

parseInt(s) ==
  IF Head(s) = "-" THEN 0 - parseDigits(Tail(s), 0) ELSE parseDigits(s, 0)

\* Number.prototype.toString of an integer
RECURSIVE digitsOf(_)
digitsOf(n) ==
  IF n < 10 THEN <<Digits[n + 1]>>
  ELSE digitsOf(n \div 10) \o <<Digits[(n % 10) + 1]>>

toString(n) == IF n < 0 THEN <<"-">> \o digitsOf(0 - n) ELSE digitsOf(n)

\* HabitHistory.getLogForDate: logs.find(log => isSameDay(log.date, date)).
\* The entries of one day are ordered by their document ids, which the store
\* draws at random, so any of them may be the one found.
LogsForDate(date) ==
  { logs[i] : i \in { j \in 1..Len(logs) : isSameDay(logs[j].date, date) } }

getLogForDate(date) ==
  IF LogsForDate(date) = {} THEN {NoLog} ELSE LogsForDate(date)

\* HabitHistory.getColorClass, the class named by its colour
getColorClass(value) ==
  IF value <= 0 THEN "gray"
  ELSE IF value < habit.goalMin THEN "yellow"
  ELSE IF habit.goalMax # NoMax /\ value > habit.goalMax THEN "purple"
  ELSE "green"

\* The calendar days the user clicks: the days of the runs.
CalendarDays == { d * TicksPerDay : d \in FirstDay..LastDay }

MonthQuery(month) == [start |-> startOfMonth(month), end |-> endOfMonth(month)]

\* HabitHistory is mounted: its state is initialised and its effect runs.
OpenHistory ==
  /\ ~historyOpen
  /\ historyOpen' = TRUE
  /\ \E t \in Now :
       /\ currentMonth' = t
       /\ historyQuery' = MonthQuery(t)
  /\ logs' = <<>>
  /\ loading' = TRUE
  /\ selectedDate' = NoDate
  /\ editValue' = <<>>
  /\ lastOp' = Op("openHistory", <<>>)
  /\ UNCHANGED <<dashVars, today, habit, resolved, periodListeners, store, writes, cardVars>>

\* onClose: HabitHistory is unmounted.
CloseHistory ==
  /\ historyOpen
  /\ selectedDate = NoDate
  /\ HistoryClosed
  /\ lastOp' = Op("closeHistory", <<>>)
  /\ UNCHANGED <<dashVars, today, habit, resolved, periodListeners, store, writes, cardVars>>

\* HabitHistory's onSnapshot callback for the month's logs
HistorySnapshot ==
  LET logsData == QueryDocs(historyQuery)
  IN /\ historyOpen
     /\ loading \/ logs # logsData
     /\ logs' = logsData
     /\ loading' = FALSE
     /\ lastOp' = Op("historySnapshot", <<>>)
     /\ UNCHANGED <<dashVars, today, habit, resolved, periodListeners, store, writes, cardVars, historyOpen,
                    currentMonth, historyQuery, selectedDate, editValue>>

\* HabitHistory.handlePreviousMonth, and the effect the new month triggers
handlePreviousMonth ==
  /\ historyOpen
  /\ selectedDate = NoDate
  /\ startOfMonth(currentMonth) > startOfMonth(FirstDay * TicksPerDay)
  /\ currentMonth' = subMonths(currentMonth)
  /\ historyQuery' = MonthQuery(subMonths(currentMonth))
  /\ loading' = TRUE
  /\ lastOp' = Op("previousMonth", <<>>)
  /\ UNCHANGED <<dashVars, today, habit, resolved, periodListeners, store, writes, cardVars, historyOpen, logs,
                 selectedDate, editValue>>

\* HabitHistory.handleNextMonth, and the effect the new month triggers
handleNextMonth ==
  /\ historyOpen
  /\ selectedDate = NoDate
  /\ startOfMonth(currentMonth) < startOfMonth(LastDay * TicksPerDay)
  /\ currentMonth' = addMonths(currentMonth)
  /\ historyQuery' = MonthQuery(addMonths(currentMonth))
  /\ loading' = TRUE
  /\ lastOp' = Op("nextMonth", <<>>)
  /\ UNCHANGED <<dashVars, today, habit, resolved, periodListeners, store, writes, cardVars, historyOpen, logs,
                 selectedDate, editValue>>

\* HabitHistory.handleDayClick: the days of the shown month are clickable
\* once the calendar has loaded.
handleDayClick ==
  /\ historyOpen
  /\ ~loading
  /\ selectedDate = NoDate
  /\ \E date \in CalendarDays :
       /\ isSameMonth(date, currentMonth)
       /\ \E log \in getLogForDate(date) :
            /\ selectedDate' = date
            /\ editValue' = IF log # NoLog THEN toString(log.value) ELSE <<>>
  /\ lastOp' = Op("dayClick", <<>>)
  /\ UNCHANGED <<dashVars, today, habit, resolved, periodListeners, store, writes, cardVars, historyOpen,
                 currentMonth, historyQuery, logs, loading>>

\* The number input's onChange
setEditValue ==
  /\ historyOpen
  /\ selectedDate # NoDate
  /\ \E s \in EditInputs :
       /\ s # editValue
       /\ editValue' = s
  /\ lastOp' = Op("setEditValue", <<>>)
  /\ UNCHANGED <<dashVars, today, habit, resolved, periodListeners, store, writes, cardVars, historyOpen,
                 currentMonth, historyQuery, logs, loading, selectedDate>>

\* The dialog's Cancel button
cancelEdit ==
  /\ historyOpen
  /\ selectedDate # NoDate
  /\ selectedDate' = NoDate
  /\ editValue' = <<>>
  /\ lastOp' = Op("cancelEdit", <<>>)
  /\ UNCHANGED <<dashVars, today, habit, resolved, periodListeners, store, writes, cardVars, historyOpen,
                 currentMonth, historyQuery, logs, loading>>

\* handleSaveLog that never looks the date's entry up
handleSaveLog_m ==
  /\ historyOpen
  /\ selectedDate # NoDate
  /\ CanIssue
  /\ Cardinality(Saves) < MaxSaves
  /\ LET value == IF editValue = <<>> THEN 0 ELSE parseInt(editValue)
         w == logHabit("save", habit.id, value, selectedDate)
     IN /\ writes' = Append(writes, w)
        /\ lastOp' = Op("save", <<w>>)
  /\ UNCHANGED <<dashVars, today, habit, resolved, periodListeners, store, cardVars, historyVars>>

\* HabitHistory.handleSaveLog up to its await; StoreCommit resumes it.
handleSaveLog ==
  /\ historyOpen
  /\ selectedDate # NoDate
  /\ CanIssue
  /\ Cardinality(Saves) < MaxSaves
  /\ LET value == IF editValue = <<>> THEN 0 ELSE parseInt(editValue)
     IN \E log \in getLogForDate(selectedDate) :
          LET w == IF log # NoLog
                   THEN updateLog("save", log.id, value)
                   ELSE logHabit("save", habit.id, value, selectedDate)
          IN /\ writes' = Append(writes, w)
             /\ lastOp' = Op("save", <<w>>)
  /\ UNCHANGED <<dashVars, today, habit, resolved, periodListeners, store, cardVars, historyVars>>

\* ------------------------------------------------------- the habit form
\* JavaScript values: a number, NaN or null
JsNumber(n) == [t |-> "number", n |-> n]
NaN == [t |-> "NaN", n |-> 0]
null == [t |-> "null", n |-> 0]
isNaN(v) == v.t = "NaN"
\* a < b, a <= b and the truthiness of a number or null
Lt(a, b) == a.t = "number" /\ b.t = "number" /\ a.n < b.n
Le(a, b) == a.t = "number" /\ b.t = "number" /\ a.n <= b.n
Truthy(v) == v.t = "number" /\ v.n # 0

\* parseInt(s) of any text: NaN when no digit follows the optional sign
parseIntValue(s) ==
  LET digits == IF s # <<>> /\ Head(s) = "-" THEN Tail(s) ELSE s
  IN IF digits = <<>> \/ ~IsDigit(Head(digits)) THEN NaN
     ELSE JsNumber(parseInt(s))

\* String.prototype.trim
RECURSIVE trimStart(_)
trimStart(s) == IF s # <<>> /\ Head(s) = " " THEN trimStart(Tail(s)) ELSE s
RECURSIVE trimEnd(_)
trimEnd(s) ==
  IF s # <<>> /\ s[Len(s)] = " " THEN trimEnd(SubSeq(s, 1, Len(s) - 1)) ELSE s
trim(s) == trimEnd(trimStart(s))

\* What the user may type into the name input and into the two number inputs
\* (a number input holds the empty text or the text of a number).
NameInputs == { <<>>, <<" ">>, <<"R", "u", "n">> }
GoalInputs == { <<>>, <<"0">>, <<"1">>, <<"2">>, <<"-", "1">>, <<"1", ".", "5">> }

NoError == ""

\* The browser's validation of a number input with step 1 whose min
\* attribute is an integer: an empty input is valid (it is not required); a
\* number is valid when it is min or more and a whole number of steps away
\* from min.  The texts typed with a "." have a fraction.
HasFraction(s) == \E i \in 1..Len(s) : s[i] = "."
InputValid(s, min) ==
  IF s = <<>> THEN TRUE ELSE ~HasFraction(s) /\ parseInt(s) >= min

\* min={parseInt(goalMin) + 1 || 2} of the second number input
MaxInputMin ==
  LET v == parseIntValue(formGoalMin)
  IN IF isNaN(v) \/ v.n + 1 = 0 THEN 2 ELSE v.n + 1

\* The browser fires the form's submit event only when every input is valid.
FormValid ==
  /\ InputValid(formGoalMin, 1)
  /\ formIsRange => InputValid(formGoalMax, MaxInputMin)

\* useState's initial values of HabitForm
FormMounted ==
  /\ formName' = <<>>
  /\ formGoalMin' = <<>>
  /\ formGoalMax' = <<>>
  /\ formIsRange' = FALSE
  /\ formLoading' = FALSE
  /\ formError' = NoError

\* Dashboard: setShowForm(true)
OpenForm ==
  /\ ~formOpen
  /\ editingHabit = 0
  /\ formOpen' = TRUE
  /\ FormMounted
  /\ lastOp' = Op("openForm", <<>>)
  /\ UNCHANGED <<submitted, habitsVars, today, habit, resolved, periodListeners, store, writes, cardVars,
                 historyVars>>

\* Dashboard.handleCancelForm: the form is unmounted
handleCancelForm ==
  /\ formOpen \/ editingHabit # 0
  /\ formOpen' = FALSE
  /\ editingHabit' = 0
  /\ FormMounted
  /\ lastOp' = Op("cancelForm", <<>>)
  /\ UNCHANGED <<submitted, userId, habitDocs, habits, habitsLoading,
                 habitWrites, calls, deleting, today, habit, resolved, periodListeners, store, writes, cardVars,
                 historyVars>>

setName ==
  /\ formOpen
  /\ \E s \in NameInputs : s # formName /\ formName' = s
  /\ lastOp' = Op("setName", <<>>)
  /\ UNCHANGED <<formOpen, formGoalMin, formGoalMax, formIsRange, formLoading,
                 formError, submitted, habitsVars, today, habit, resolved, periodListeners, store, writes,
                 cardVars, historyVars>>

setGoalMin ==
  /\ formOpen
  /\ \E s \in GoalInputs : s # formGoalMin /\ formGoalMin' = s
  /\ lastOp' = Op("setGoalMin", <<>>)
  /\ UNCHANGED <<formOpen, formName, formGoalMax, formIsRange, formLoading,
                 formError, submitted, habitsVars, today, habit, resolved, periodListeners, store, writes,
                 cardVars, historyVars>>

\* the second number input is rendered only for a range
setGoalMax ==
  /\ formOpen
  /\ formIsRange
  /\ \E s \in GoalInputs : s # formGoalMax /\ formGoalMax' = s
  /\ lastOp' = Op("setGoalMax", <<>>)
  /\ UNCHANGED <<formOpen, formName, formGoalMin, formIsRange, formLoading,
                 formError, submitted, habitsVars, today, habit, resolved, periodListeners, store, writes,
                 cardVars, historyVars>>

\* the range checkbox's onChange
setIsRange ==
  /\ formOpen
  /\ formIsRange' = ~formIsRange
  /\ formGoalMax' = IF formIsRange THEN <<>> ELSE formGoalMax
  /\ lastOp' = Op("setIsRange", <<>>)
  /\ UNCHANGED <<formOpen, formName, formGoalMin, formLoading, formError,
                 submitted, habitsVars, today, habit, resolved, periodListeners, store, writes, cardVars,
                 historyVars>>

\* handleSubmit that tests only minValue < 1
handleSubmit_m ==
  /\ formOpen
  /\ ~formLoading
  /\ FormValid
  /\ Len(submitted) < MaxSubmits
  /\ LET minValue == parseIntValue(formGoalMin)
         maxValue == IF formIsRange /\ formGoalMax # <<>>
                     THEN parseIntValue(formGoalMax) ELSE null
     IN IF trim(formName) = <<>>
        THEN /\ formError' = "Please enter a habit name"
             /\ UNCHANGED <<formLoading, submitted>>
        ELSE IF Lt(minValue, JsNumber(1))
        THEN /\ formError' = "Please enter a valid goal"
             /\ UNCHANGED <<formLoading, submitted>>
        ELSE IF formIsRange /\ Truthy(maxValue) /\ Le(maxValue, minValue)
        THEN /\ formError' = "Maximum goal must be greater than minimum goal"
             /\ UNCHANGED <<formLoading, submitted>>
        ELSE /\ formError' = NoError
             /\ formLoading' = TRUE
             /\ submitted' = Append(submitted,
                               [name |-> trim(formName), goalMin |-> minValue,
                                goalMax |-> maxValue])
  /\ lastOp' = Op("submit", <<>>)
  /\ UNCHANGED <<formOpen, formName, formGoalMin, formGoalMax, formIsRange,
                 habitsVars, today, habit, resolved, periodListeners, store, writes, cardVars, historyVars>>

\* The three tests of handleSubmit, in its order: the error it sets, NoError
\* when it goes on to onSubmit.
SubmitError(name, goalMin, goalMax, isRange) ==
  LET minValue == parseIntValue(goalMin)
      maxValue == IF isRange /\ goalMax # <<>> THEN parseIntValue(goalMax) ELSE null
  IN IF trim(name) = <<>> THEN "Please enter a habit name"
     ELSE IF isNaN(minValue) \/ Lt(minValue, JsNumber(1))
     THEN "Please enter a valid goal"
     ELSE IF isRange /\ Truthy(maxValue) /\ Le(maxValue, minValue)
     THEN "Maximum goal must be greater than minimum goal"
     ELSE NoError

\* handleSubmit that tests name instead of name.trim()
handleSubmit_m2 ==
  /\ formOpen
  /\ ~formLoading
  /\ FormValid
  /\ Len(submitted) < MaxSubmits
  /\ LET minValue == parseIntValue(formGoalMin)
         maxValue == IF formIsRange /\ formGoalMax # <<>>
                     THEN parseIntValue(formGoalMax) ELSE null
         err == IF formName = <<>> THEN "Please enter a habit name"
                ELSE SubmitError(<<"x">>, formGoalMin, formGoalMax, formIsRange)
     IN IF err # NoError
        THEN /\ formError' = err
             /\ UNCHANGED <<formLoading, submitted>>
        ELSE /\ formError' = NoError
             /\ formLoading' = TRUE
             /\ submitted' = Append(submitted,
                               [name |-> trim(formName), goalMin |-> minValue,
                                goalMax |-> maxValue])
  /\ lastOp' = Op("submit", <<>>)
  /\ UNCHANGED <<formOpen, formName, formGoalMin, formGoalMax, formIsRange,
                 habitsVars, today, habit, resolved, periodListeners, store, writes, cardVars,
                 historyVars>>

\* HabitForm.handleSubmit up to its await (the submit button is disabled
\* while loading).  The emoji, unit and frequency chosen are passed on as they
\* are.
handleSubmit ==
  /\ formOpen
  /\ ~formLoading
  /\ FormValid
  /\ Len(submitted) < MaxSubmits
  /\ LET minValue == parseIntValue(formGoalMin)
         maxValue == IF formIsRange /\ formGoalMax # <<>>
                     THEN parseIntValue(formGoalMax) ELSE null
         err == SubmitError(formName, formGoalMin, formGoalMax, formIsRange)
     IN IF err # NoError
        THEN /\ formError' = err
             /\ UNCHANGED <<formLoading, submitted>>
        ELSE /\ formError' = NoError
             /\ formLoading' = TRUE
             /\ submitted' = Append(submitted,
                               [name |-> trim(formName), goalMin |-> minValue,
                                goalMax |-> maxValue])
  /\ lastOp' = Op("submit", <<>>)
  /\ UNCHANGED <<formOpen, formName, formGoalMin, formGoalMax, formIsRange,
                 habitsVars, today, habit, resolved, periodListeners, store, writes, cardVars,
                 historyVars>>

\* onSubmit resolved: handleSubmit calls onCancel, which unmounts the form.
SubmitResolved ==
  /\ formOpen
  /\ formLoading
  /\ formOpen' = FALSE
  /\ FormMounted
  /\ lastOp' = Op("submitResolved", <<>>)
  /\ UNCHANGED <<submitted, habitsVars, today, habit, resolved, periodListeners, store, writes, cardVars,
                 historyVars>>

\* onSubmit rejected: handleSubmit's catch and finally
SubmitRejected ==
  /\ formOpen
  /\ formLoading
  /\ formError' = "Failed to create habit. Please try again."
  /\ formLoading' = FALSE
  /\ lastOp' = Op("submitRejected", <<>>)
  /\ UNCHANGED <<formOpen, formName, formGoalMin, formGoalMax, formIsRange,
                 submitted, habitsVars, today, habit, resolved, periodListeners, store, writes, cardVars,
                 historyVars>>

\* ------------------------------------------------------ the habit list
NoUser == ""
NoHabit == 0

logVars == <<today, habit, resolved, periodListeners, store, writes, cardVars,
            historyVars>>

\* The habits query of the signed-in user: where userId == uid,
\* orderBy('order', 'asc'), ties by document id.
HabitIds(uid) ==
  { i \in 1..Len(habitDocs) : habitDocs[i].userId = uid /\ ~habitDocs[i].deleted }

RECURSIVE OrderedHabits(_)
OrderedHabits(ids) ==
  IF ids = {} THEN <<>>
  ELSE LET i == CHOOSE a \in ids :
                  \A b \in ids : \/ habitDocs[a].order < habitDocs[b].order
                                 \/ habitDocs[a].order = habitDocs[b].order /\ a <= b
       IN <<[id |-> i, order |-> habitDocs[i].order]>> \o OrderedHabits(ids \ {i})

QueryHabits(uid) == OrderedHabits(HabitIds(uid))

\* Math.max(...habits.map(h => h.order))
RECURSIVE MaxOrder(_, _)
MaxOrder(hs, n) ==
  IF n = 1 THEN hs[1].order
  ELSE LET m == MaxOrder(hs, n - 1)
       IN IF hs[n].order > m THEN hs[n].order ELSE m

\* arrayMove(array, from, to) of @dnd-kit/sortable
arrayMove(arr, from, to) ==
  LET without == [i \in 1..(Len(arr) - 1) |-> IF i < from THEN arr[i] ELSE arr[i + 1]]
  IN [i \in 1..Len(arr) |->
        IF i < to THEN without[i]
        ELSE IF i = to THEN arr[from]
        ELSE without[i - 1]]

HabitWrite(call, kind, id, order) ==
  [call |-> call, kind |-> kind, id |-> id, order |-> order, user |-> userId,
   status |-> "pending", was |-> 0 - 1]

Call(op, ids, outcome) == [op |-> op, ids |-> ids, user |-> userId, status |-> outcome]

CanCall == Len(calls) < MaxCalls
NextCall == Len(calls) + 1
HabitPending == { i \in 1..Len(habitWrites) : habitWrites[i].status = "pending" }

\* reorderHabits that numbers the positions from 1
reorderHabits_m(call, habitIds) ==
  [index \in 1..Len(habitIds) |-> HabitWrite(call, "order", habitIds[index], index)]

\* useHabits.reorderHabits: one updateDoc per id, { order: index }, the index
\* counted from 0
reorderHabits(call, habitIds) ==
  [index \in 1..Len(habitIds) |->
      HabitWrite(call, "order", habitIds[index], index - 1)]

\* Promise.allSettled in place of Promise.all
PromiseAll_m(statuses) ==
  IF \A k \in 1..Len(statuses) : statuses[k] # "pending"
  THEN "resolved" ELSE "pending"

\* Promise.all over the writes of a call (a single awaited write is the case
\* of one promise): rejected as soon as one write has failed, resolved once
\* all have been applied.
PromiseAll(statuses) ==
  IF \E k \in 1..Len(statuses) : statuses[k] = "failed" THEN "rejected"
  ELSE IF \A k \in 1..Len(statuses) : statuses[k] = "ok" THEN "resolved"
  ELSE "pending"

WritesOf(ws, c) == SelectSeq(ws, LAMBDA w : w.call = c)
StatusesOf(ws, c) ==
  LET own == WritesOf(ws, c) IN [k \in 1..Len(own) |-> own[k].status]

\* The outcome of every call that awaits writes, given the writes' statuses.
Settled(ws) ==
  [c \in 1..Len(calls) |->
     IF calls[c].status = "threw" THEN calls[c]
     ELSE [calls[c] EXCEPT !.status = PromiseAll(StatusesOf(ws, c))]]

\* Whether a card of habit id is rendered for the list hs
Listed(id, hs) == \E k \in 1..Len(hs) : hs[k].id = id

\* The deleting state of the mounted card of habit id
Deleting(id) == \E c \in deleting : calls[c].ids = <<id>>

\* handleDelete whose catch does not reset deleting
DeleteResumed_m(c, outcome) == deleting' = deleting

\* HabitCard.handleDelete after its await: the catch resets deleting of the
\* card that made call c, when that card is still mounted
DeleteResumed(c, outcome) ==
  deleting' = IF calls[c].op = "deleteHabit" /\ outcome = "rejected"
              THEN deleting \ {c}
              ELSE deleting

\* The user signs out, in this tab or in another: useAuth's user becomes
\* null and the effect of useHabits runs again; no card is rendered.
signOut ==
  /\ userId # NoUser
  /\ userId' = NoUser
  /\ habits' = <<>>
  /\ habitsLoading' = FALSE
  /\ deleting' = {}
  /\ lastOp' = Op("signOut", <<>>)
  /\ UNCHANGED <<formVars, habitDocs, habitWrites, calls, editingHabit, logVars>>

\* A user signs in: the effect of useHabits subscribes to that user's habits.
signIn ==
  /\ userId = NoUser
  /\ userId' = "user-1"
  /\ habitsLoading' = TRUE
  /\ lastOp' = Op("signIn", <<>>)
  /\ UNCHANGED <<formVars, habitDocs, habits, habitWrites, calls, editingHabit, deleting,
                 logVars>>

\* useHabits' onSnapshot callback.  The list renders one card per habit,
\* keyed by its id: the card of a habit that is no longer listed is unmounted
\* and its state is gone.
HabitsSnapshot ==
  LET habitsData == QueryHabits(userId)
  IN /\ userId # NoUser
     /\ habitsLoading \/ habits # habitsData
     /\ habits' = habitsData
     /\ habitsLoading' = FALSE
     /\ deleting' = { c \in deleting : Listed(calls[c].ids[1], habitsData) }
     /\ lastOp' = Op("habitsSnapshot", <<>>)
     /\ UNCHANGED <<formVars, userId, habitDocs, habitWrites, calls,
                    editingHabit, logVars>>

\* Dashboard.handleEditHabit, from the pencil of a listed card
handleEditHabit ==
  /\ ~habitsLoading
  /\ ~formOpen
  /\ editingHabit = NoHabit
  /\ \E k \in 1..Len(habits) : editingHabit' = habits[k].id
  /\ FormMounted
  /\ lastOp' = Op("editHabit", <<>>)
  /\ UNCHANGED <<formOpen, submitted, userId, habitDocs, habits, habitsLoading,
                 habitWrites, calls, deleting, logVars>>

\* handleSubmitHabit that never looks at editingHabit
handleSubmitHabit_m ==
  /\ formOpen \/ editingHabit # NoHabit
  /\ ~formLoading
  /\ CanCall
  /\ IF userId = NoUser
     THEN /\ calls' = Append(calls, Call("addHabit", <<>>, "threw"))
          /\ formError' = "Failed to create habit. Please try again."
          /\ lastOp' = Op("addHabit", <<>>)
          /\ UNCHANGED <<habitWrites, formLoading>>
     ELSE LET maxOrder == IF Len(habits) > 0 THEN MaxOrder(habits, Len(habits))
                          ELSE 0 - 1
              w == HabitWrite(NextCall, "add", NoHabit, maxOrder + 1)
          IN /\ habitWrites' = Append(habitWrites, w)
             /\ calls' = Append(calls, Call("addHabit", <<>>, "pending"))
             /\ formLoading' = TRUE
             /\ formError' = NoError
             /\ lastOp' = Op("addHabit", <<w>>)
  /\ UNCHANGED <<formOpen, formName, formGoalMin, formGoalMax, formIsRange,
                 submitted, userId, habitDocs, habits, habitsLoading,
                 editingHabit, deleting, logVars>>

\* Dashboard.handleSubmitHabit, called by the form with a valid habit, up to
\* its await: useHabits.updateHabit for the habit being edited, otherwise
\* useHabits.addHabit, which throws without a user.
handleSubmitHabit ==
  /\ formOpen \/ editingHabit # NoHabit
  /\ ~formLoading
  /\ CanCall
  /\ IF editingHabit # NoHabit
     THEN LET w == HabitWrite(NextCall, "update", editingHabit, 0 - 1)
          IN /\ habitWrites' = Append(habitWrites, w)
             /\ calls' = Append(calls, Call("updateHabit", <<editingHabit>>, "pending"))
             /\ formLoading' = TRUE
             /\ formError' = NoError
             /\ lastOp' = Op("updateHabit", <<w>>)
     ELSE IF userId = NoUser
     THEN /\ calls' = Append(calls, Call("addHabit", <<>>, "threw"))
          /\ formError' = "Failed to create habit. Please try again."
          /\ lastOp' = Op("addHabit", <<>>)
          /\ UNCHANGED <<habitWrites, formLoading>>
     ELSE LET maxOrder == IF Len(habits) > 0 THEN MaxOrder(habits, Len(habits))
                          ELSE 0 - 1
              w == HabitWrite(NextCall, "add", NoHabit, maxOrder + 1)
          IN /\ habitWrites' = Append(habitWrites, w)
             /\ calls' = Append(calls, Call("addHabit", <<>>, "pending"))
             /\ formLoading' = TRUE
             /\ formError' = NoError
             /\ lastOp' = Op("addHabit", <<w>>)
  /\ UNCHANGED <<formOpen, formName, formGoalMin, formGoalMax, formIsRange,
                 submitted, userId, habitDocs, habits, habitsLoading,
                 editingHabit, deleting, logVars>>

\* HabitCard.handleDelete of a listed card, confirmed, up to its await
\* (the button is disabled while deleting): setDeleting(true), then
\* useHabits.deleteHabit
handleDelete ==
  /\ ~habitsLoading
  /\ ~formOpen
  /\ editingHabit = NoHabit
  /\ CanCall
  /\ \E k \in 1..Len(habits) :
       LET w == HabitWrite(NextCall, "delete", habits[k].id, 0 - 1)
       IN /\ ~Deleting(habits[k].id)
          /\ deleting' = deleting \cup {NextCall}
          /\ habitWrites' = Append(habitWrites, w)
          /\ calls' = Append(calls, Call("deleteHabit", <<habits[k].id>>, "pending"))
          /\ lastOp' = Op("deleteHabit", <<w>>)
  /\ UNCHANGED <<formVars, userId, habitDocs, habits, habitsLoading,
                 editingHabit, logVars>>

\* Dashboard.handleDragEnd: a listed card dropped onto another one
handleDragEnd ==
  /\ ~habitsLoading
  /\ ~formOpen
  /\ editingHabit = NoHabit
  /\ CanCall
  /\ \E oldIndex, newIndex \in 1..Len(habits) :
       /\ oldIndex # newIndex
       /\ LET newOrder == arrayMove(habits, oldIndex, newIndex)
              ids == [k \in 1..Len(newOrder) |-> newOrder[k].id]
              ws == reorderHabits(NextCall, ids)
          IN /\ habitWrites' = habitWrites \o ws
             /\ calls' = Append(calls, Call("reorderHabits", ids, "pending"))
             /\ lastOp' = Op("reorderHabits", ws)
  /\ UNCHANGED <<formVars, userId, habitDocs, habits, habitsLoading,
                 editingHabit, deleting, logVars>>

\* What the caller does once the promise of call c has settled:
\* handleSubmitHabit and the form's handleSubmit close the form after a
\* resolved addHabit or updateHabit; the form shows its error after a
\* rejected one.
Resumed(c, outcome) ==
  IF calls[c].op \in {"addHabit", "updateHabit"} /\ outcome = "resolved"
  THEN /\ formOpen' = FALSE
       /\ editingHabit' = NoHabit
       /\ formLoading' = FALSE
       /\ UNCHANGED formError
  ELSE IF calls[c].op \in {"addHabit", "updateHabit"} /\ outcome = "rejected"
          /\ (formOpen \/ editingHabit # NoHabit)
  THEN /\ formError' = "Failed to create habit. Please try again."
       /\ formLoading' = FALSE
       /\ UNCHANGED <<formOpen, editingHabit>>
  ELSE UNCHANGED <<formOpen, editingHabit, formLoading, formError>>

\* The store applies the oldest outstanding write to the habits collection.
\* updateDoc needs the document to exist; deleteDoc does not.
HabitCommit ==
  /\ HabitPending # {}
  /\ LET i == CHOOSE a \in HabitPending : \A b \in HabitPending : a <= b
         w == habitWrites[i]
         ws == [habitWrites EXCEPT
                  ![i].status = "ok",
                  ![i].was = IF w.kind = "add" THEN 0 - 1 ELSE habitDocs[w.id].order]
     IN /\ w.kind \in {"update", "order"} => ~habitDocs[w.id].deleted
        /\ habitDocs' =
             CASE w.kind = "add" ->
                    Append(habitDocs, [userId |-> w.user, order |-> w.order,
                                       deleted |-> FALSE])
               [] w.kind = "order" -> [habitDocs EXCEPT ![w.id].order = w.order]
               [] w.kind = "delete" -> [habitDocs EXCEPT ![w.id].deleted = TRUE]
               [] OTHER -> habitDocs
        /\ habitWrites' = ws
        /\ calls' = Settled(ws)
        /\ Resumed(w.call, PromiseAll(StatusesOf(ws, w.call)))
        /\ DeleteResumed(w.call, PromiseAll(StatusesOf(ws, w.call)))
        /\ lastOp' = Op("habitCommit", <<ws[i]>>)
  /\ UNCHANGED <<formName, formGoalMin, formGoalMax, formIsRange, submitted,
                 userId, habits, habitsLoading, logVars>>

\* The store rejects the oldest outstanding write to the habits collection.
HabitReject ==
  /\ HabitPending # {}
  /\ LET i == CHOOSE a \in HabitPending : \A b \in HabitPending : a <= b
         w == habitWrites[i]
         ws == [habitWrites EXCEPT
                  ![i].status = "failed",
                  ![i].was = IF w.kind = "add" THEN 0 - 1 ELSE habitDocs[w.id].order]
     IN /\ habitWrites' = ws
        /\ calls' = Settled(ws)
        /\ Resumed(w.call, PromiseAll(StatusesOf(ws, w.call)))
        /\ DeleteResumed(w.call, PromiseAll(StatusesOf(ws, w.call)))
        /\ lastOp' = Op("habitReject", <<ws[i]>>)
  /\ UNCHANGED <<formName, formGoalMin, formGoalMax, formIsRange, submitted,
                 userId, habitDocs, habits, habitsLoading, logVars>>

\* ------------------------------------------------- the period resolver
\* The instants new Date() may yield: 2024-01-01 up to the end of day MaxRefDay
\* (day 730 is 2025-12-31).
ReferenceInstants == 0..((MaxRefDay + 1) * TicksPerDay - 1)

\* useCurrentPeriodLog's effect calls getPeriodBounds(frequency, timezone) with
\* the device's timezone; the call reads the clock and returns the bounds.
PeriodResolved ==
  /\ resolved.now # NoDate
  /\ resolved.start = NoDate
  /\ LET bounds == getPeriodBounds(resolved.frequency, resolved.now)
     IN resolved' = [resolved EXCEPT !.start = bounds.start, !.end = bounds.end]
  /\ lastOp' = Op("getPeriodBounds", <<>>)
  /\ UNCHANGED <<dashVars, today, habit, periodListeners, store, writes, cardVars,
                 historyVars>>

\* The card alone: the clock, the card's subscriptions and buttons, the store.
NextCard ==
  \/ Midnight
  \/ ReloadCard
  \/ TodaySnapshot
  \/ PeriodSnapshot
  \/ handleIncrement
  \/ handleDecrement
  \/ StoreCommit
  \/ StoreReject

SpecCard == Init /\ [][NextCard]_vars

\* The history calendar of one habit over the store.
InitHistory ==
  /\ Init
  /\ habit.goalMin = 2
  /\ habit.goalMax = 3
  /\ habit.frequency = "weekly"

NextHistory ==
  \/ StoreCommit
  \/ StoreReject
  \/ OpenHistory
  \/ CloseHistory
  \/ HistorySnapshot
  \/ handlePreviousMonth
  \/ handleNextMonth
  \/ handleDayClick
  \/ setEditValue
  \/ cancelEdit
  \/ handleSaveLog

SpecHistory == InitHistory /\ [][NextHistory]_vars

\* The card and the history calendar of one habit side by side, within one
\* day and one month: both the card's buttons and the direct edit write to
\* the store, and the card's subscriptions report what the store holds.  An
\* edit dialog, once opened, is left by saving.
NextCardEdit ==
  \/ TodaySnapshot
  \/ PeriodSnapshot
  \/ handleIncrement
  \/ handleDecrement
  \/ StoreCommit
  \/ StoreReject
  \/ OpenHistory
  \/ HistorySnapshot
  \/ handleDayClick
  \/ setEditValue
  \/ handleSaveLog

SpecCardEdit == InitHistory /\ [][NextCardEdit]_vars

\* The habit form alone, whatever its onSubmit does with the habit.
NextForm ==
  \/ OpenForm
  \/ handleCancelForm
  \/ setName
  \/ setGoalMin
  \/ setGoalMax
  \/ setIsRange
  \/ handleSubmit
  \/ SubmitResolved
  \/ SubmitRejected

SpecForm == InitHistory /\ [][NextForm]_vars

\* The dashboard's habit list: authentication, the habits subscription, the
\* form's submission, delete, drag and drop, and the habits collection.
NextHabits ==
  \/ signOut
  \/ signIn
  \/ HabitsSnapshot
  \/ OpenForm
  \/ handleCancelForm
  \/ handleEditHabit
  \/ handleSubmitHabit
  \/ handleDelete
  \/ handleDragEnd
  \/ HabitCommit
  \/ HabitReject

SpecHabits == InitHistory /\ [][NextHabits]_vars

\* The card of a habit whose frequency is edited while it is shown.
NextSubscriptions ==
  \/ Midnight
  \/ ReloadCard
  \/ FrequencyChanged
  \/ TodaySnapshot
  \/ PeriodSnapshot
  \/ handleIncrement
  \/ handleDecrement
  \/ StoreCommit
  \/ StoreReject

SpecSubscriptions == InitHistory /\ [][NextSubscriptions]_vars

\* getPeriodBounds alone, for every frequency and every reading of the clock.
InitPeriod ==
  /\ InitApp
  /\ habit.goalMin = 2
  /\ habit.goalMax = 3
  /\ habit.frequency = "weekly"
  /\ \E f \in Frequencies, now_ \in ReferenceInstants :
       resolved = [frequency |-> f, now |-> now_, start |-> NoDate, end |-> NoDate]

NextPeriod ==
  \/ PeriodResolved

SpecPeriod == InitPeriod /\ [][NextPeriod]_vars

\* ---------------------------------------------------------------- claims
RECURSIVE SumOfValues(_)
SumOfValues(ids) ==
  IF ids = {} THEN 0
  ELSE LET i == CHOOSE a \in ids : TRUE
       IN store[i].value + SumOfValues(ids \ {i})

RECURSIVE SumUpTo(_, _)
SumUpTo(seq, n) == IF n = 0 THEN 0 ELSE seq[n].value + SumUpTo(seq, n - 1)

\* The store's entries of the habit dated on calendar day d.
EntriesOn(d) ==
  { i \in 1..Len(store) : store[i].habitId = habit.id /\ DayOf(store[i].date) = d }

ExpectedStatus(total, goalMin, goalMax) ==
  CASE total = 0 -> "none"
    [] total # 0 /\ goalMax # NoMax /\ total < goalMin -> "partial"
    [] total # 0 /\ goalMax # NoMax /\ goalMin <= total /\ total <= goalMax
         -> "complete"
    [] total # 0 /\ goalMax # NoMax /\ total > goalMax -> "exceeded"
    [] total # 0 /\ goalMax = NoMax /\ total >= goalMin -> "complete"
    [] total # 0 /\ goalMax = NoMax /\ total < goalMin -> "partial"

\* C1: for every Total >= 0 the card shows, the status it shows is none at 0;
\* with a goalMax, partial below goalMin, complete within [goalMin, goalMax]
\* and exceeded above goalMax; without one, complete from goalMin on and
\* partial below it; and for goal 10-15 the totals 0, 5, 12, 20 give none,
\* partial, complete, exceeded.
C1_StatusDerivation ==
  /\ currentValue >= 0 =>
       status = ExpectedStatus(currentValue, habit.goalMin, habit.goalMax)
  /\ getProgressStatus(0, 10, 15) = "none"
  /\ getProgressStatus(5, 10, 15) = "partial"
  /\ getProgressStatus(12, 10, 15) = "complete"
  /\ getProgressStatus(20, 10, 15) = "exceeded"

C1_Witness ==
  /\ habit.goalMax # NoMax
  /\ currentValue > habit.goalMax
  /\ status = "exceeded"

\* C2: for a weekly or monthly habit the Total shown is always the sum of the
\* values of the entries last delivered by the period subscription, and right
\* after a notification those are exactly the store's entries of the habit
\* dated within the resolved period; values 2, 3, 2 give 7.
C2_PeriodTotalIsSum ==
  /\ usesPeriodTracking =>
       /\ currentValue = SumUpTo(periodLogs, Len(periodLogs))
       /\ lastOp.op = "periodSnapshot" =>
            /\ { periodLogs[k].id : k \in 1..Len(periodLogs) }
                 = Matching(periodQuery)
            /\ currentValue = SumOfValues(Matching(periodQuery))
  /\ reduceSum(<<[value |-> 2], [value |-> 3], [value |-> 2]>>) = 7

C2_Witness ==
  /\ usesPeriodTracking
  /\ lastOp.op = "periodSnapshot"
  /\ Len(periodLogs) >= 2
  /\ periodLogs[1].value >= 1
  /\ periodLogs[2].value >= 1
  /\ currentValue = periodLogs[1].value + periodLogs[2].value

C5_IncrementTwice ==
  ( /\ Len(writes) = 2
    /\ \A k \in 1..2 : /\ writes[k].op = "increment"
                       /\ writes[k].status = "ok"
                       /\ writes[k].issuedOn = writes[1].issuedOn ) =>
    \E i \in 1..Len(store) :
       /\ EntriesOn(writes[1].issuedOn) = {i}
       /\ store[i].value = 2

C7_DecrementWrites ==
  (lastOp.op = "decrement" /\ todayLog # NoLog /\ todayLog.value > 0) =>
     /\ Len(lastOp.issued) = 1
     /\ writes # <<>>
     /\ writes[Len(writes)] = lastOp.issued[1]
     /\ lastOp.issued[1].kind = "update"
     /\ lastOp.issued[1].id = todayLog.id
     /\ lastOp.issued[1].value = todayLog.value - 1

C7_Witness ==
  /\ lastOp.op = "decrement"
  /\ todayLog # NoLog
  /\ todayLog.value = 2
  /\ lastOp.issued[1].value = 1

\* C8: the write an increment or a decrement issues creates or overwrites an
\* entry dated on the calendar day of the click.
C8_OnlyTodayChanges ==
  (lastOp.op \in {"increment", "decrement"} /\ lastOp.issued # <<>>) =>
     LET w == lastOp.issued[1]
     IN IF w.kind = "add"
        THEN DayOf(w.date) = today
        ELSE DayOf(store[w.id].date) = today

\* The integer a text of the number input stands for, 0 when it is blank.
TypedValue(s) ==
  IF s = <<>> THEN 0 ELSE CHOOSE v \in (0 - 99)..99 : toString(v) = s

\* C9: saving a direct edit issues exactly one write carrying the typed
\* value: when the calendar holds an entry of the selected date, updateLog on
\* the id of such an entry; otherwise logHabit with the habit id, the value
\* and the selected date.
C9_DirectEditWrites ==
  lastOp.op = "save" =>
    /\ Len(lastOp.issued) = 1
    /\ writes # <<>>
    /\ writes[Len(writes)] = lastOp.issued[1]
    /\ LET w == lastOp.issued[1]
           found == { k \in 1..Len(logs) :
                        DayOf(logs[k].date) = DayOf(selectedDate) }
       IN /\ w.value = TypedValue(editValue)
          /\ IF found # {}
             THEN /\ w.kind = "update"
                  /\ \E k \in found : w.id = logs[k].id
             ELSE /\ w.kind = "add"
                  /\ w.habitId = habit.id
                  /\ w.date = selectedDate

C9_Witness ==
  /\ lastOp.op = "save"
  /\ lastOp.issued[1].kind = "update"
  /\ lastOp.issued[1].value = 2
  /\ store[lastOp.issued[1].id].value = 0 - 1
  /\ store[lastOp.issued[1].id].date = selectedDate

\* The store as it was once the first n writes were settled.
RECURSIVE StoreAfter(_)
StoreAfter(n) ==
  IF n = 0 THEN <<>>
  ELSE LET before == StoreAfter(n - 1)
           w == writes[n]
       IN IF w.status # "ok" THEN before
          ELSE IF w.kind = "add"
               THEN Append(before, [habitId |-> w.habitId, date |-> w.date,
                                    value |-> w.value])
               ELSE [before EXCEPT ![w.id].value = w.value]

\* The date a write is about: the date it creates an entry for, or the date
\* of the entry it overwrites.
TargetDate(w) == IF w.kind = "add" THEN w.date ELSE store[w.id].date

EntriesOf(st, from, to) ==
  { [id |-> i, value |-> st[i].value] :
      i \in { j \in 1..Len(st) : st[j].date >= from /\ st[j].date <= to } }

RECURSIVE TotalOf(_)
TotalOf(entries) ==
  IF entries = {} THEN 0
  ELSE LET e == CHOOSE x \in entries : TRUE
       IN e.value + TotalOf(entries \ {e})

\* C10: when two successive direct edits of the same date with the same value
\* have both been applied, the entries of that date and the Total of every
\* period holding it are what they were after the first.
C10_DirectEditIdempotent ==
  \A n \in 1..(Len(writes) - 1) :
    ( /\ writes[n].op = "save" /\ writes[n].status = "ok"
      /\ writes[n + 1].op = "save" /\ writes[n + 1].status = "ok"
      /\ TargetDate(writes[n]) = TargetDate(writes[n + 1])
      /\ writes[n].value = writes[n + 1].value ) =>
      \A f \in Frequencies :
        LET p == getPeriodBounds(f, TargetDate(writes[n]))
        IN /\ EntriesOf(StoreAfter(n + 1), p.start, p.end)
                = EntriesOf(StoreAfter(n), p.start, p.end)
           /\ TotalOf(EntriesOf(StoreAfter(n + 1), p.start, p.end))
                = TotalOf(EntriesOf(StoreAfter(n), p.start, p.end))

\* Saturday and Sunday
IsWeekend(d) == DayOfWeek(d) \in {5, 6}

\* C11: for a workday habit no increment or decrement is taken through the
\* card on a Saturday or a Sunday, so no write of the card is issued on such
\* a day.
C11_WorkdayRestDay ==
  habit.frequency = "workday" =>
    /\ ~(lastOp.op \in {"increment", "decrement"} /\ IsWeekend(today))
    /\ \A k \in 1..Len(writes) :
         writes[k].op \in {"increment", "decrement"} =>
           ~IsWeekend(writes[k].issuedOn)

\* C12: the Total and the Status the card shows change only in a step that
\* is a subscription notification: a step that issues a write (increment,
\* decrement, direct edit), one in which the store applies a write and one in
\* which it rejects a write leave both as they were; a rejected write changes
\* nothing in the store, and no write is issued again in its place.
C12_OnlySnapshotsChangeTotal ==
  [][ /\ (currentValue' # currentValue \/ status' # status) =>
           lastOp'.op \in {"todaySnapshot", "periodSnapshot"}
      /\ lastOp'.op \in {"increment", "decrement", "save", "commit", "reject"} =>
           /\ currentValue' = currentValue
           /\ status' = status
      /\ lastOp'.op = "reject" =>
           /\ store' = store
           /\ Len(writes') = Len(writes)
           /\ \E k \in Pending : /\ writes'[k].status = "failed"
                                 /\ Pending' = Pending \ {k} ]_vars

C12_Witness ==
  /\ lastOp.op = "reject"
  /\ currentValue = 2
  /\ status = "complete"
  /\ writes[Len(writes)].op = "save"
  /\ writes[Len(writes)].status = "failed"
  /\ \E k \in 1..Len(writes) : writes[k].op = "increment" /\ writes[k].status = "ok"

\* C13: once the clock has passed into a new period with the card still
\* mounted, what the card shows after a notification is computed against
\* the period holding the current instant: for a weekly or monthly habit the
\* Total is the sum of the store's entries of the current week or month, and
\* the entry held as today's is an entry of the current day.
C13_Rollover ==
  /\ (lastOp.op = "periodSnapshot" /\ usesPeriodTracking) =>
        \A t \in Now :
          currentValue = SumOfValues(Matching(getPeriodBounds(habit.frequency, t)))
  /\ (lastOp.op = "todaySnapshot" /\ todayLog # NoLog) =>
        DayOf(todayLog.date) = today
  /\ (lastOp.op = "todaySnapshot" /\ ~usesPeriodTracking) =>
        \/ EntriesOn(today) = {} /\ currentValue = 0
        \/ \E i \in EntriesOn(today) : currentValue = store[i].value

\* C14: the store never holds two entries of the habit dated on the same
\* calendar day.
C14_OnePerDay ==
  \A i, j \in 1..Len(store) :
    ( /\ store[i].habitId = store[j].habitId
      /\ DayOf(store[i].date) = DayOf(store[j].date) ) => i = j

\* C15: every entry the store holds has a value of 0 or more.
C15_ValuesNonNegative ==
  \A i \in 1..Len(store) : store[i].value >= 0

IdsOf(hs) == [k \in 1..Len(hs) |-> hs[k].id]
Range(seq) == { seq[k] : k \in 1..Len(seq) }

\* C17: reorderHabits(orderedIds) issues exactly one write per id, the update
\* of that habit's order to its position in orderedIds counted from 0; and at
\* the moment the last of them has been applied, all having succeeded, every
\* habit of orderedIds holds that position, a read ordered by order lists the
\* habits of orderedIds in the requested sequence, and lists exactly
\* orderedIds when these are all the habits of the user.
C17_ReorderSetsPositions ==
  /\ lastOp.op = "reorderHabits" =>
       LET ids == calls[Len(calls)].ids
           n == Len(habitWrites) - Len(ids)
       IN /\ Len(lastOp.issued) = Len(ids)
          /\ \A i \in 1..Len(ids) :
               /\ lastOp.issued[i].kind = "order"
               /\ lastOp.issued[i].id = ids[i]
               /\ lastOp.issued[i].order = i - 1
               /\ habitWrites[n + i].id = ids[i]
               /\ habitWrites[n + i].order = i - 1
          /\ Len(WritesOf(habitWrites, Len(calls))) = Len(ids)
  /\ \A c \in 1..Len(calls) :
       ( /\ calls[c].op = "reorderHabits"
         /\ calls[c].status = "resolved"
         /\ lastOp.op = "habitCommit"
         /\ lastOp.issued[1].call = c ) =>
         LET ids == calls[c].ids
             read == IdsOf(QueryHabits(habitDocs[ids[1]].userId))
         IN /\ \A i \in 1..Len(ids) : habitDocs[ids[i]].order = i - 1
            /\ SelectSeq(read, LAMBDA h : h \in Range(ids)) = ids
            /\ Range(read) = Range(ids) => read = ids

C17_Witness ==
  /\ lastOp.op = "habitCommit"
  /\ calls[lastOp.issued[1].call].op = "reorderHabits"
  /\ calls[lastOp.issued[1].call].status = "resolved"
  /\ calls[lastOp.issued[1].call].ids = <<2, 1, 3>>
  /\ habitDocs[2].order = 0
  /\ habitDocs[1].order = 1
  /\ habitDocs[3].order = 2
  /\ IdsOf(QueryHabits("user-1")) = <<2, 1, 3>>

\* C18: a reorder of which some write failed is rejected; once all its
\* writes are settled, every habit whose write was applied holds its new
\* position and every habit whose write failed holds the order it had before.
C18_PartialReorder ==
  \A c \in 1..Len(calls) :
    LET own == WritesOf(habitWrites, c)
    IN calls[c].op = "reorderHabits" =>
         /\ (\E k \in 1..Len(own) : own[k].status = "failed") =>
               calls[c].status = "rejected"
         /\ ( /\ lastOp.op \in {"habitCommit", "habitReject"}
              /\ lastOp.issued[1].call = c
              /\ \A k \in 1..Len(own) : own[k].status # "pending"
              /\ \E k \in 1..Len(own) : own[k].status = "failed" ) =>
              \A k \in 1..Len(own) :
                /\ own[k].status = "ok" => habitDocs[own[k].id].order = own[k].order
                /\ own[k].status = "failed" => habitDocs[own[k].id].order = own[k].was

C18_Witness ==
  /\ lastOp.op \in {"habitCommit", "habitReject"}
  /\ LET c == lastOp.issued[1].call
         own == WritesOf(habitWrites, c)
     IN /\ calls[c].op = "reorderHabits"
        /\ calls[c].status = "rejected"
        /\ \A k \in 1..Len(own) : own[k].status # "pending"
        /\ \E k \in 1..Len(own) :
             /\ own[k].status = "ok"
             /\ own[k].was # own[k].order
             /\ habitDocs[own[k].id].order = own[k].order
        /\ \E k \in 1..Len(own) :
             /\ own[k].status = "failed"
             /\ own[k].was # own[k].order
             /\ habitDocs[own[k].id].order = own[k].was
        /\ \E a, b \in HabitIds("user-1") : a # b /\ habitDocs[a].order = habitDocs[b].order

\* C19: when a habit created by addHabit is stored, its order is above the
\* order of every other habit of the user, and 0 when the user has no other.
C19_NewHabitSortsLast ==
  (lastOp.op = "habitCommit" /\ lastOp.issued[1].kind = "add") =>
     LET new == Len(habitDocs)
         others == HabitIds(habitDocs[new].userId) \ {new}
     IN /\ \A i \in others : habitDocs[i].order < habitDocs[new].order
        /\ others # {} =>
             \E i \in others : habitDocs[new].order = habitDocs[i].order + 1
        /\ others = {} => habitDocs[new].order = 0

\* C20: a call of a write operation made while no user is signed in throws
\* and issues no write to the store.
C20_NoUserNoWrite ==
  \A c \in 1..Len(calls) :
    calls[c].user = NoUser =>
      /\ calls[c].status = "threw"
      /\ WritesOf(habitWrites, c) = <<>>

\* The day index of a calendar date, counted from 2024-01-01.
RECURSIVE DaysBefore(_, _)
DaysBefore(y, m) ==
  IF y = 2024 /\ m = 1 THEN 0
  ELSE IF m = 1 THEN DaysBefore(y - 1, 12) + DaysInMonth(y - 1, 12)
  ELSE DaysBefore(y, m - 1) + DaysInMonth(y, m - 1)

DayIndex(y, m, d) == DaysBefore(y, m) + d - 1
FirstInstant(d) == d * TicksPerDay
LastInstant(d) == d * TicksPerDay + TicksPerDay - 1

\* C21: for every frequency and every reference instant the resolved period
\* has start <= end and start <= reference instant <= end; for daily and
\* workday it is exactly the calendar day that holds the reference instant,
\* from its first instant to its last.
C21_PeriodContainsReference ==
  resolved.start # NoDate =>
    /\ resolved.start <= resolved.end
    /\ resolved.start <= resolved.now
    /\ resolved.now <= resolved.end
    /\ resolved.frequency \in {"daily", "workday"} =>
         /\ resolved.start = FirstInstant(DayOf(resolved.now))
         /\ resolved.end = LastInstant(DayOf(resolved.now))

\* a workday period resolved at the last instant of Friday 2025-11-14
C21_Witness ==
  /\ resolved.frequency = "workday"
  /\ resolved.now = LastInstant(DayIndex(2025, 11, 14))
  /\ resolved.start = FirstInstant(DayIndex(2025, 11, 14))
  /\ resolved.end = resolved.now

\* C22: for weekly frequency and every reference day the resolved period
\* starts with the Monday on or before the reference day and ends with the
\* Sunday six days later; Wednesday 2025-11-12 gives Monday 2025-11-10 to
\* Sunday 2025-11-16.
C22_WeekMondayToSunday ==
  (resolved.frequency = "weekly" /\ resolved.start # NoDate) =>
    LET monday == DayOf(resolved.start)
        ref == DayOf(resolved.now)
    IN /\ DayOfWeek(monday) = 0
       /\ monday <= ref
       /\ ref - monday <= 6
       /\ resolved.start = FirstInstant(monday)
       /\ resolved.end = LastInstant(monday + 6)
       /\ DayOfWeek(DayOf(resolved.end)) = 6
       /\ ref = DayIndex(2025, 11, 12) =>
            /\ DayOfWeek(ref) = 2
            /\ resolved.start = FirstInstant(DayIndex(2025, 11, 10))
            /\ resolved.end = LastInstant(DayIndex(2025, 11, 16))

\* the week resolved on Wednesday 2025-11-12
C22_Witness ==
  /\ resolved.frequency = "weekly"
  /\ DayOf(resolved.now) = DayIndex(2025, 11, 12)
  /\ resolved.start = FirstInstant(DayIndex(2025, 11, 10))
  /\ resolved.end = LastInstant(DayIndex(2025, 11, 16))

\* C23: for monthly frequency and every reference day the resolved period
\* starts with day 1 of the reference day's calendar month and ends with the
\* last day of that month, whose number follows the month's real length:
\* 2025-11-15 gives 2025-11-01 to 2025-11-30, February has 29 days in 2024
\* and 28 in 2025.
C23_MonthFirstToLast ==
  (resolved.frequency = "monthly" /\ resolved.start # NoDate) =>
    LET ref == DayOf(resolved.now)
        first == DayOf(resolved.start)
        last == DayOf(resolved.end)
    IN /\ first <= ref
       /\ ref <= last
       /\ resolved.start = FirstInstant(first)
       /\ resolved.end = LastInstant(last)
       /\ \E y \in 2024..2026, m \in 1..12 :
            /\ first = DayIndex(y, m, 1)
            /\ last = DayIndex(y, m, DaysInMonth(y, m))
            /\ last + 1 = DayIndex(IF m = 12 THEN y + 1 ELSE y,
                                   IF m = 12 THEN 1 ELSE m + 1, 1)
       /\ ref = DayIndex(2025, 11, 15) =>
            /\ first = DayIndex(2025, 11, 1)
            /\ last = DayIndex(2025, 11, 30)
       /\ ref = DayIndex(2024, 2, 10) => last - first + 1 = 29
       /\ ref = DayIndex(2025, 2, 10) => last - first + 1 = 28

\* the month resolved on 2024-02-29, the last day of a leap-year February
C23_Witness ==
  /\ resolved.frequency = "monthly"
  /\ DayOf(resolved.now) = DayIndex(2024, 2, 29)
  /\ resolved.start = FirstInstant(DayIndex(2024, 2, 1))
  /\ resolved.end = LastInstant(DayIndex(2024, 2, 29))
  /\ DayIndex(2024, 3, 1) = DayIndex(2024, 2, 29) + 1

\* C24: for every Total >= 0 the card shows and every habit with goalMin >= 1,
\* the progress percentage is Total / goal * 100 up to the goal and 100 above
\* it, the goal being goalMax when there is one and goalMin otherwise, and so
\* it always lies in [0, 100].
C24_ProgressPercentage ==
  (currentValue >= 0 /\ habit.goalMin >= 1) =>
    LET goal == IF habit.goalMax # NoMax THEN habit.goalMax ELSE habit.goalMin
        pct == progressPercentage
    IN /\ pct.den > 0
       /\ currentValue <= goal => pct.num * goal = currentValue * 100 * pct.den
       /\ currentValue > goal => pct.num = 100 * pct.den
       /\ 0 <= pct.num
       /\ pct.num <= 100 * pct.den

\* a total of 3 against the goal 1-2: 150 clamped to 100
C24_Witness ==
  /\ habit.goalMin = 1
  /\ habit.goalMax = 2
  /\ currentValue = 3
  /\ progressPercentage = Ratio(100, 1)

\* C25: a submission of the habit form whose name is empty or only blanks, or
\* whose goal minimum is missing, not a number or below 1, sets the form's
\* inline error and does not call onSubmit, so that no write is attempted.
C25_InvalidSubmitRejected ==
  [][ (lastOp'.op = "submit"
        /\ \/ trim(formName) = <<>>
           \/ isNaN(parseIntValue(formGoalMin))
           \/ Lt(parseIntValue(formGoalMin), JsNumber(1)))
      => /\ formError' # NoError
         /\ submitted' = submitted
         /\ formLoading' = FALSE
         /\ SubmitError(<<" ">>, <<"1">>, <<>>, FALSE) = "Please enter a habit name"
         /\ SubmitError(<<"R", "u", "n">>, <<>>, <<>>, FALSE)
              = "Please enter a valid goal"
         /\ SubmitError(<<"R", "u", "n">>, <<"0">>, <<>>, FALSE)
              = "Please enter a valid goal"
         /\ SubmitError(<<"R", "u", "n">>, <<"-", "1">>, <<>>, FALSE)
              = "Please enter a valid goal" ]_vars

\* a name of blanks submitted with a valid goal: the name's error is shown
\* and nothing was passed to onSubmit
C25_Witness ==
  /\ lastOp.op = "submit"
  /\ formName = <<" ">>
  /\ formGoalMin = <<"2">>
  /\ formError = "Please enter a habit name"
  /\ submitted = <<>>
  /\ ~formLoading

\* C26: in the dashboard a submission of the habit form made while a habit is
\* being edited calls updateHabit with that habit's id and not addHabit; a
\* submission made while no habit is being edited calls addHabit and not
\* updateHabit.
C26_SubmitUpdatesOrAdds ==
  [][ lastOp'.op \in {"addHabit", "updateHabit"} =>
        /\ Len(calls') = Len(calls) + 1
        /\ LET c == calls'[Len(calls')]
           IN IF editingHabit # NoHabit
              THEN /\ c.op = "updateHabit"
                   /\ c.ids = <<editingHabit>>
                   /\ Len(lastOp'.issued) = 1
                   /\ lastOp'.issued[1].kind = "update"
                   /\ lastOp'.issued[1].id = editingHabit
                   /\ habitWrites' = Append(habitWrites, lastOp'.issued[1])
              ELSE /\ c.op = "addHabit"
                   /\ \A k \in 1..Len(lastOp'.issued) :
                        lastOp'.issued[k].kind = "add"
                   /\ habitWrites' = habitWrites \o lastOp'.issued ]_vars

\* the second listed habit was being edited and the form was submitted:
\* updateHabit was called for it, and the store has applied the update
C26_Witness ==
  /\ Len(calls) = 1
  /\ calls[1].op = "updateHabit"
  /\ calls[1].ids = <<2>>
  /\ calls[1].status = "resolved"
  /\ habitWrites[1].kind = "update"
  /\ habitWrites[1].id = 2
  /\ editingHabit = NoHabit

\* C27: once a log subscription has been unsubscribed (the card is torn
\* down, or its frequency changes) it reports nothing more: every later
\* notification that sets Total and logs carries the documents of the period
\* subscription that is current, every one that sets today's entry those of
\* the current today subscription; and the change cancels no write that was
\* already issued.
C27_UnsubscribedStaysSilent ==
  [][ /\ lastOp'.op = "periodSnapshot" =>
           /\ periodLogs' = QueryDocs(periodQuery)
           /\ totalValue' = reduceSum(QueryDocs(periodQuery))
      /\ lastOp'.op = "todaySnapshot" =>
           \/ Matching(todayQuery) = {} /\ todayLog' = NoLog
           \/ \E i \in Matching(todayQuery) : todayLog' = Doc(i)
      /\ lastOp'.op \in {"frequencyChanged", "reload"} =>
           /\ \A q \in periodListeners : q # periodQuery' => q \notin periodListeners'
           /\ writes' = writes
           /\ store' = store ]_vars

\* the weekly habit has an entry of Saturday; on Sunday it was changed to
\* daily and the new subscription has reported: the week's entry is no longer
\* counted
C27_Witness ==
  /\ lastOp.op = "periodSnapshot"
  /\ habit.frequency = "daily"
  /\ today = FirstDay + 1
  /\ periodQuery = getPeriodBounds("daily", today * TicksPerDay)
  /\ \E i \in 1..Len(store) :
       /\ DayOf(store[i].date) = FirstDay
       /\ store[i].value >= 1
       /\ store[i].date >= startOfWeek(today * TicksPerDay)
  /\ periodLogs = <<>>
  /\ totalValue = 0

\* C28: overlapping increments are neither dropped nor merged and the last
\* write wins: every increment issues its own write; two increments made on
\* an existing entry of today while the card holds the same value v both
\* overwrite it with v + 1, and once both are applied, with no later
\* overwrite, the entry holds v + 1.
C28_LastWriteWins ==
  /\ lastOp.op = "increment" =>
       /\ Len(lastOp.issued) = 1
       /\ writes[Len(writes)] = lastOp.issued[1]
       /\ todayLog # NoLog =>
            /\ lastOp.issued[1].kind = "update"
            /\ lastOp.issued[1].id = todayLog.id
            /\ lastOp.issued[1].value = todayLog.value + 1
  /\ \A i, j \in 1..Len(writes) :
       ( /\ i < j
         /\ writes[i].op = "increment" /\ writes[j].op = "increment"
         /\ writes[i].kind = "update" /\ writes[j].kind = "update"
         /\ writes[i].id = writes[j].id
         /\ writes[i].value = writes[j].value
         /\ writes[i].status = "ok" /\ writes[j].status = "ok"
         /\ \A k \in (j + 1)..Len(writes) :
              ~(writes[k].kind = "update" /\ writes[k].id = writes[j].id
                /\ writes[k].status = "ok") )
       => store[writes[j].id].value = writes[j].value

\* today's entry was created with 1 and shown; two increments were made before
\* any further notification, both overwrote it with 2, both were applied and
\* the entry holds 2
C28_Witness ==
  /\ Len(writes) = 3
  /\ writes[1].kind = "add"
  /\ writes[2].op = "increment" /\ writes[3].op = "increment"
  /\ writes[2].kind = "update" /\ writes[3].kind = "update"
  /\ writes[2].id = 1 /\ writes[3].id = 1
  /\ writes[2].value = 2 /\ writes[3].value = 2
  /\ writes[2].status = "ok" /\ writes[3].status = "ok"
  /\ store[1].value = 2

\* C29: when the store rejects a habit's delete, the habit stays in the
\* collection and in the list as it was and the deleting state of the card
\* that asked for it is false again; from the click on, the card's deleting
\* state is true for as long as the delete is in flight and the card is
\* shown.
C29_RejectedDeleteResets ==
  [][ /\ (lastOp'.op = "habitReject" /\ lastOp'.issued[1].kind = "delete") =>
           /\ habitDocs' = habitDocs
           /\ habits' = habits
           /\ lastOp'.issued[1].call \notin deleting'
      /\ lastOp'.op = "deleteHabit" =>
           /\ Len(calls') \in deleting'
           /\ \E c \in deleting' : calls'[c].ids = <<lastOp'.issued[1].id>>
      /\ \A c \in deleting \ deleting' :
           \/ calls'[c].status = "rejected"
           \/ ~Listed(calls[c].ids[1], habits') ]_vars

\* the delete of the first listed habit was rejected: the habit is still
\* stored and listed, its card is not deleting
C29_Witness ==
  /\ lastOp.op = "habitReject"
  /\ lastOp.issued[1].kind = "delete"
  /\ lastOp.issued[1].id = 1
  /\ calls[lastOp.issued[1].call].status = "rejected"
  /\ ~habitDocs[1].deleted
  /\ Listed(1, habits)
  /\ ~Deleting(1)

StatusColour(st) ==
  CASE st = "none" -> "gray"
    [] st = "partial" -> "yellow"
    [] st = "complete" -> "green"
    [] st = "exceeded" -> "purple"

\* C30: the colour the history calendar gives a day agrees with the status
\* the card derives from the same value and goal, for every value the store
\* holds: gray exactly for none, yellow for partial, green for complete and
\* purple for exceeded.
C30_ColourMatchesStatus ==
  (historyOpen /\ ~loading) =>
    \A k \in 1..Len(logs) :
      getColorClass(logs[k].value)
        = StatusColour(getProgressStatus(logs[k].value, habit.goalMin,
                                         habit.goalMax))

====
